---- MODULE Spec2Model ----
(***************************************************************************)
(* A model of the udatatable crate (src/src/lib.rs): the fixed-capacity    *)
(* table uDataTable<T, N, M> with its operations new, get, append, erase,  *)
(* length, headers and plot.  The row type T is an abstract finite set of  *)
(* rows with a distinguished default; the projection handed to plot is an  *)
(* arbitrary function from rows to i32 values.  plot is computed as the    *)
(* code computes it: 32-bit signed integer arithmetic (checked or wrapping,*)
(* as the build profile decides) and IEEE-754 binary32 arithmetic with     *)
(* round-to-nearest-even for the `as f32` expressions.                     *)
(***************************************************************************)
EXTENDS Integers, Sequences, FiniteSets

(***************************************************************************)
(* Bounds of the model.                                                    *)
(***************************************************************************)
N == 2            \* const N: usize, the capacity (rows)
MaxRow == 1       \* the row type T has the values 0..MaxRow

\* const M: usize, the number of column names
M == 3

\* the row type T and T::default()
Rows == 0..MaxRow
DefaultRow == 0

(***************************************************************************)
(* i32 arithmetic.  Every intermediate value below stays inside the i32    *)
(* range, so that an overflow of the program is detected, never computed.  *)
(***************************************************************************)
I32_MAX == 2147483647
I32_MIN == (-I32_MAX) - 1

\* the values a projection may return
Values == {I32_MIN, 0, 1, 41}

\* a - b leaves the i32 range
sub_overflows(a, b) ==
    IF b > 0 THEN a < I32_MIN + b ELSE a > I32_MAX + b

\* a - b modulo 2^32, as a signed 32-bit value
wrapping_sub(a, b) ==
    IF ~sub_overflows(a, b) THEN a - b
    ELSE IF b > 0 THEN (((a - I32_MIN) - b) + I32_MAX) + 1
    ELSE ((a + I32_MIN) - b) + I32_MIN

\* -n leaves the i32 range
neg_overflows(n) == n = I32_MIN

\* -n modulo 2^32
wrapping_neg(n) == IF n = I32_MIN THEN I32_MIN ELSE -n

\* i32 division, truncating toward zero (b > 0)
tdiv(a, b) ==
    IF a >= 0 \/ a % b = 0 THEN a \div b ELSE (a \div b) + 1

(***************************************************************************)
(* f32 arithmetic: IEEE-754 binary32, round to nearest, ties to even.      *)
(* A finite value is (-1)^s * m * 2^e with m = 0 or 2^23 <= m < 2^24.      *)
(* The magnitudes plot produces lie between 2^-32 and 2^36, so neither     *)
(* subnormals nor exponent overflow occur.                                 *)
(***************************************************************************)
RECURSIVE Pow2(_)
Pow2(n) == IF n = 0 THEN 1 ELSE 2 * Pow2(n - 1)

TwoP12 == 4096
TwoP22 == 4194304
TwoP23 == 8388608
TwoP24 == 16777216

f32_nan == [k |-> "nan", s |-> 0, m |-> 0, e |-> 0]
f32_inf(s) == [k |-> "inf", s |-> s, m |-> 0, e |-> 0]
f32_zero(s) == [k |-> "fin", s |-> s, m |-> 0, e |-> 0]

\* a rounded significand of 2^24 carries into the exponent
f32_pack(s, m, e) ==
    IF m = TwoP24 THEN [k |-> "fin", s |-> s, m |-> TwoP23, e |-> e + 1]
    ELSE [k |-> "fin", s |-> s, m |-> m, e |-> e]

\* kept, plus one when the dropped part rem rounds up: to nearest, ties to
\* even; half is the weight of the first dropped bit; sticky: the exact value
\* has nonzero bits below rem
round_up(kept, rem, half, sticky) ==
    IF \/ rem > half
       \/ rem = half /\ sticky
       \/ rem = half /\ kept % 2 = 1
    THEN kept + 1 ELSE kept

\* q without its k low bits (k >= 1), rounded
round_rne(q, k, sticky) ==
    round_up(q \div Pow2(k), q % Pow2(k), Pow2(k - 1), sticky)

RECURSIVE bit_length(_)
bit_length(a) == IF a = 0 THEN 0 ELSE 1 + bit_length(a \div 2)

\* a nonzero magnitude a of b bits with sign s, as f32
f32_from_bits(s, a, b) ==
    IF b <= 24 THEN f32_pack(s, a * Pow2(24 - b), b - 24)
    ELSE f32_pack(s, round_rne(a, b - 24, FALSE), b - 24)

\* x as f32
i32_to_f32(x) ==
    IF x = 0 THEN f32_zero(0)
    ELSE IF x = I32_MIN THEN f32_pack(1, TwoP23, 8)
    ELSE IF x < 0 THEN f32_from_bits(1, -x, bit_length(-x))
    ELSE f32_from_bits(0, x, bit_length(x))

\* the 48-bit product hi * 2^24 + lo of two significands, rounded to 24 bits
f32_mul_round(s, hi, lo, e) ==
    IF hi >= TwoP23
    THEN f32_pack(s, round_up(hi, lo, TwoP23, FALSE), e + 24)
    ELSE f32_pack(s, round_up(2 * hi + (lo \div TwoP23), lo % TwoP23,
                              TwoP22, FALSE), e + 23)

\* the partial products of the significands a1 * 2^12 + a0 and b1 * 2^12 + b0
f32_mul_parts(s, a1, a0, b1, b0, mid, low, e) ==
    f32_mul_round(s, a1 * b1 + (mid \div TwoP12) + (low \div TwoP24),
                  low % TwoP24, e)

f32_mul_limbs(s, a1, a0, b1, b0, mid, e) ==
    f32_mul_parts(s, a1, a0, b1, b0, mid,
                  a0 * b0 + (mid % TwoP12) * TwoP12, e)

\* the product of two nonzero finite values
f32_mul_fin(x, y) ==
    f32_mul_limbs((x.s + y.s) % 2, x.m \div TwoP12, x.m % TwoP12,
                  y.m \div TwoP12, y.m % TwoP12,
                  (x.m \div TwoP12) * (y.m % TwoP12)
                      + (x.m % TwoP12) * (y.m \div TwoP12),
                  x.e + y.e)

\* x * y
f32_mul(x, y) ==
    IF x.k = "nan" \/ y.k = "nan" THEN f32_nan
    ELSE IF x.k = "inf" \/ y.k = "inf"
    THEN IF (x.k = "fin" /\ x.m = 0) \/ (y.k = "fin" /\ y.m = 0)
         THEN f32_nan ELSE f32_inf((x.s + y.s) % 2)
    ELSE IF x.m = 0 \/ y.m = 0 THEN f32_zero((x.s + y.s) % 2)
    ELSE f32_mul_fin(x, y)

\* i more quotient bits of the long division by d: <<quotient, remainder>>
RECURSIVE div_bits(_, _, _, _)
div_bits(r, q, d, i) ==
    IF i = 0 THEN <<q, r>>
    ELSE IF 2 * r >= d THEN div_bits(2 * r - d, 2 * q + 1, d, i - 1)
    ELSE div_bits(2 * r, 2 * q, d, i - 1)

\* the 26- or 25-bit quotient qr[1] with remainder qr[2], rounded to 24 bits
f32_div_round(s, qr, k, e) ==
    f32_pack(s, round_rne(qr[1], k, qr[2] # 0), (e - 25) + k)

\* the quotient of two nonzero finite values
f32_div_fin(x, y) ==
    IF x.m >= y.m
    THEN f32_div_round((x.s + y.s) % 2, div_bits(x.m - y.m, 1, y.m, 25), 2,
                       x.e - y.e)
    ELSE f32_div_round((x.s + y.s) % 2, div_bits(x.m, 0, y.m, 25), 1,
                       x.e - y.e)

\* x / y
f32_div(x, y) ==
    IF x.k = "nan" \/ y.k = "nan" THEN f32_nan
    ELSE IF x.k = "inf"
    THEN IF y.k = "inf" THEN f32_nan ELSE f32_inf((x.s + y.s) % 2)
    ELSE IF y.k = "inf" THEN f32_zero((x.s + y.s) % 2)
    ELSE IF y.m = 0
    THEN IF x.m = 0 THEN f32_nan ELSE f32_inf((x.s + y.s) % 2)
    ELSE IF x.m = 0 THEN f32_zero((x.s + y.s) % 2)
    ELSE f32_div_fin(x, y)

f32_one == i32_to_f32(1)

\* x as i32: truncates toward zero, saturates, NaN gives 0
f32_to_i32(x) ==
    IF x.k = "nan" THEN 0
    ELSE IF x.k = "inf" THEN (IF x.s = 1 THEN I32_MIN ELSE I32_MAX)
    ELSE IF x.m = 0 THEN 0
    ELSE IF x.e >= 8 THEN (IF x.s = 1 THEN I32_MIN ELSE I32_MAX)
    ELSE LET mag == IF x.e >= 0 THEN x.m * Pow2(x.e)
                    ELSE IF -x.e >= 24 THEN 0
                    ELSE x.m \div Pow2(-x.e)
         IN  IF x.s = 1 THEN -mag ELSE mag

(***************************************************************************)
(* uDataTable<T, N, M>: a table is the record of the struct's fields.      *)
(* data is indexed 0..N-1 as the array is.  Every operation also reports   *)
(* in idx the array indices it reads or writes.                            *)
(***************************************************************************)
\* the arrays of M column names a table is constructed with
Headers == {h \in {<<"a", "b", "c">>, <<"c", "b", "a">>} : Len(h) = M}

\* uDataTable::new
new(hdrs) ==
    [headers |-> hdrs, data |-> [i \in 0..(N - 1) |-> DefaultRow], length |-> 0]

\* get with the bound off by one
get_off_by_one(self, index) ==
    IF index <= self.length
    THEN [ok |-> TRUE, row |-> self.data[index], err |-> "", idx |-> {index}]
    ELSE [ok |-> FALSE, row |-> DefaultRow, err |-> "RowIndexOutOfBounds",
          idx |-> {}]

\* uDataTable::get
get(self, index) ==
    IF index < self.length
    THEN [ok |-> TRUE, row |-> self.data[index], err |-> "", idx |-> {index}]
    ELSE [ok |-> FALSE, row |-> DefaultRow, err |-> "RowIndexOutOfBounds",
          idx |-> {}]

\* append with the capacity test off by one: grows a full table
append_past_capacity(self, row) ==
    IF self.length <= N
    THEN [self |-> [self EXCEPT !.length = self.length + 1],
          ok |-> TRUE, row |-> row, err |-> "",
          idx |-> {self.length, (self.length + 1) - 1}]
    ELSE [self |-> self, ok |-> FALSE, row |-> DefaultRow,
          err |-> "CannotGrowTable", idx |-> {}]

\* append that refuses the last free slot
append_full_early(self, row) ==
    IF self.length + 1 < N
    THEN [self |-> [self EXCEPT !.data[self.length] = row,
                                !.length = self.length + 1],
          ok |-> TRUE, row |-> row, err |-> "",
          idx |-> {self.length, (self.length + 1) - 1}]
    ELSE [self |-> self, ok |-> FALSE, row |-> DefaultRow,
          err |-> "CannotGrowTable", idx |-> {}]

\* uDataTable::append: the table afterwards and the value returned
append(self, row) ==
    IF self.length < N
    THEN [self |-> [self EXCEPT !.data[self.length] = row,
                                !.length = self.length + 1],
          ok |-> TRUE, row |-> row, err |-> "",
          idx |-> {self.length, (self.length + 1) - 1}]
    ELSE [self |-> self, ok |-> FALSE, row |-> DefaultRow,
          err |-> "CannotGrowTable", idx |-> {}]

\* erase whose loop stops one slot short
erase_short_loop(self) ==
    [self EXCEPT !.length = 0,
                 !.data = [i \in 0..(N - 1) |->
                              IF i < N - 1 THEN DefaultRow ELSE self.data[i]]]

\* erase that resets the length and leaves the slots as they are
erase_length_only(self) == [self EXCEPT !.length = 0]

\* erase that resets the whole struct, the headers too
erase_resets_headers(self) ==
    [headers |-> [i \in 1..M |-> ""],
     data |-> [i \in 0..(N - 1) |-> DefaultRow], length |-> 0]

\* uDataTable::erase
erase(self) ==
    [self EXCEPT !.length = 0, !.data = [i \in 0..(N - 1) |-> DefaultRow]]

\* uDataTable::length
length(self) == self.length

\* uDataTable::headers
headers(self) == self.headers

(***************************************************************************)
(* uDataTable::plot                                                        *)
(***************************************************************************)
MAX_HEIGHT == 23

\* the loop of count_digits: count += 1; n /= 10; until n == 0
RECURSIVE digits_loop(_, _)
digits_loop(n, count) ==
    LET n2 == tdiv(n, 10)
    IN  IF n2 = 0 THEN count + 1 ELSE digits_loop(n2, count + 1)

\* uDataTable::count_digits, with n = -n wrapping
count_digits(v) ==
    IF v < 0 THEN digits_loop(wrapping_neg(v), 1) ELSE digits_loop(v, 0)

\* n = -n in count_digits overflows
count_digits_overflows(v) == v < 0 /\ neg_overflows(v)

\* one step of the range scan: <<min, max>> after the value v
scan_step(v, min, max) ==
    <<IF v < min THEN v ELSE min, IF v > max THEN v ELSE max>>

\* the range scan `for row in self.data.iter()` from slot i to the last
\* slot, end - 1: <<min, max>>
RECURSIVE scan_range(_, _, _, _, _)
scan_range(data, f, i, end, mm) ==
    IF i >= end THEN mm
    ELSE scan_range(data, f, i + 1, end, scan_step(f[data[i]], mm[1], mm[2]))

\* (display_height as f32 * (0 - min) as f32 / (max - min) as f32) as i32
zero_height(min, max, display_height) ==
    f32_to_i32(f32_div(f32_mul(i32_to_f32(display_height),
                               i32_to_f32(wrapping_sub(0, min))),
                       i32_to_f32(wrapping_sub(max, min))))

\* 1.0 / (max - min) as f32
scale_of(min, max) == f32_div(f32_one, i32_to_f32(wrapping_sub(max, min)))

\* ((value - min) as f32 * scale * display_height as f32) as i32
scaled_value(v, min, scale, display_height) ==
    f32_to_i32(f32_mul(f32_mul(i32_to_f32(wrapping_sub(v, min)), scale),
                       i32_to_f32(display_height)))

\* the text before the glyphs of line h: pad spaces, the number if any, " |"
axis_label(h, zh, min, max, display_height, min_digits, max_digits, digits) ==
    IF h = zh THEN [pad |-> digits - 1, num |-> <<0>>]
    ELSE IF h = display_height
    THEN [pad |-> digits - max_digits, num |-> <<max>>]
    ELSE IF h = 0 THEN [pad |-> digits - min_digits, num |-> <<min>>]
    ELSE [pad |-> digits, num |-> <<>>]

\* the glyph of a row whose scaled value is sv, on line h
glyph(sv, h) == IF sv = h THEN "*" ELSE IF sv > h THEN "." ELSE " "

\* the lines written, from h = display_height down to h = 0; zh is the
\* height of the value 0 and sv[r + 1] the scaled value of row r
plot_lines(sv, zh, min, max, display_height, min_digits, max_digits) ==
    [j \in 1..(display_height + 1) |->
        [label |-> axis_label((display_height + 1) - j, zh, min, max,
                              display_height, min_digits, max_digits,
                              IF min_digits > max_digits
                              THEN min_digits ELSE max_digits),
         glyphs |-> [c \in 1..Len(sv) |->
                        glyph(sv[c], (display_height + 1) - j)]]]

\* the scaled values of the rows r..length() - 1, as
\* `for r in 0..self.length()` with self.get(r) finds them
RECURSIVE scaled_rows(_, _, _, _, _, _)
scaled_rows(self, f, r, min, scale, display_height) ==
    IF r >= length(self) \/ ~get(self, r).ok THEN <<>>
    ELSE <<scaled_value(f[get(self, r).row], min, scale, display_height)>>
         \o scaled_rows(self, f, r + 1, min, scale, display_height)

\* some i32 operation of plot leaves the i32 range: before the loop over h
\* (count_digits, max - min) or inside it (0 - min, value - min)
plot_overflows(self, f, min, max, display_height) ==
    \/ count_digits_overflows(min)
    \/ count_digits_overflows(max)
    \/ sub_overflows(max, min)
    \/ /\ display_height >= 0
       /\ \/ sub_overflows(0, min)
          \/ \E r \in 0..(length(self) - 1) :
                sub_overflows(f[self.data[r]], min)

\* plot from the loop over h on
plot_render(self, f, min, max, display_height, scale, panic, overflow) ==
    [min |-> min, max |-> max, overflow |-> overflow, panic |-> panic,
     display_height |-> display_height,
     idx |-> UNION {get(self, r).idx : r \in 0..(length(self) - 1)},
     out |-> IF panic THEN <<>>
             ELSE CHOOSE lines \in
                      {plot_lines(sv, zh, min, max, display_height, nd, xd) :
                          sv \in {scaled_rows(self, f, 0, min, scale,
                                              display_height)},
                          zh \in {zero_height(min, max, display_height)},
                          nd \in {count_digits(min)},
                          xd \in {count_digits(max)}} : TRUE]

\* plot after the range scan
plot_scanned(self, f, checks, min, max, display_height) ==
    plot_render(self, f, min, max, display_height, scale_of(min, max),
                checks /\ plot_overflows(self, f, min, max, display_height),
                plot_overflows(self, f, min, max, display_height))

\* display_height
height_of(range) == IF range > MAX_HEIGHT THEN MAX_HEIGHT ELSE range

\* plot with <<min, max>> as the range scan leaves them
plot_minmax(self, f, checks, mm) ==
    plot_scanned(self, f, checks, mm[1], mm[2],
                 height_of(wrapping_sub(mm[2], mm[1])))

\* plot whose range scan covers the appended rows only
plot_scan_length(self, f, checks) ==
    plot_minmax(self, f, checks,
                scan_range(self.data, f, 0, length(self),
                           <<I32_MAX, I32_MIN>>))

\* uDataTable::plot.  checks: the build panics on integer overflow (debug
\* profile); otherwise integer arithmetic wraps (release profile).
plot(self, f, checks) ==
    plot_minmax(self, f, checks,
                scan_range(self.data, f, 0, N, <<I32_MAX, I32_MIN>>))

(***************************************************************************)
(* The program: a table constructed by new(new_headers), then any sequence *)
(* of calls.  appended is the history of the rows successfully appended    *)
(* since construction or the last erase; value is the projection the       *)
(* program plots with; result is the last call with its arguments and what *)
(* it returned (for erase, the length it found).  An i32 overflow in plot  *)
(* has the two outcomes the build profiles give it: a panic, which ends    *)
(* the program (overflow checks on), or a wrapped value (checks off).      *)
(***************************************************************************)
VARIABLES table, new_headers, appended, value, result

vars == <<table, new_headers, appended, value, result>>

Projections == [Rows -> Values]

Init ==
    /\ new_headers \in Headers
    /\ table = new(new_headers)
    /\ appended = <<>>
    /\ value \in Projections
    /\ result = [op |-> "new"]

Panicked == result.op = "plot" /\ result.panic

CallAppend(row) ==
    /\ ~Panicked
    /\ LET r == append(table, row)
       IN  /\ table' = r.self
           /\ appended' = IF r.ok THEN Append(appended, row) ELSE appended
           /\ result' = [op |-> "append", arg |-> row, ok |-> r.ok,
                         row |-> r.row, err |-> r.err, idx |-> r.idx]
    /\ UNCHANGED <<new_headers, value>>

CallGet(index) ==
    /\ ~Panicked
    /\ LET r == get(table, index)
       IN  result' = [op |-> "get", arg |-> index, ok |-> r.ok,
                      row |-> r.row, err |-> r.err, idx |-> r.idx]
    /\ UNCHANGED <<table, new_headers, appended, value>>

CallErase ==
    /\ ~Panicked
    /\ table' = erase(table)
    /\ appended' = <<>>
    /\ result' = [op |-> "erase", len |-> length(table), idx |-> 0..(N - 1)]
    /\ UNCHANGED <<new_headers, value>>

CallLength ==
    /\ ~Panicked
    /\ result' = [op |-> "length", ret |-> length(table), idx |-> {}]
    /\ UNCHANGED <<table, new_headers, appended, value>>

CallHeaders ==
    /\ ~Panicked
    /\ result' = [op |-> "headers", ret |-> headers(table), idx |-> {}]
    /\ UNCHANGED <<table, new_headers, appended, value>>

CallPlot(overflow_checks) ==
    /\ ~Panicked
    /\ \E r \in {plot(table, value, overflow_checks)} :
          result' = [op |-> "plot", arg |-> value, min |-> r.min,
                     max |-> r.max, overflow |-> r.overflow,
                     panic |-> r.panic, display_height |-> r.display_height,
                     out |-> r.out, idx |-> r.idx]
    /\ UNCHANGED <<table, new_headers, appended, value>>

Next ==
    \/ \E row \in Rows : CallAppend(row)
    \/ \E index \in 0..N : CallGet(index)
    \/ CallErase
    \/ CallLength
    \/ CallHeaders
    \/ \E overflow_checks \in BOOLEAN : CallPlot(overflow_checks)

Spec == Init /\ [][Next]_vars

(***************************************************************************)
(* Properties.                                                             *)
(***************************************************************************)

\* C1: in every reachable state the table's length satisfies
\* 0 <= length <= N.
C1_LengthWithinCapacity == length(table) >= 0 /\ length(table) <= N

\* a full table, reached by appends and then read
C1_Witness ==
    result.op = "length" /\ result.ret = N /\ Len(appended) = N

\* C2: append fails with CannotGrowTable exactly when length == N before
\* the call, and a failing append leaves the table (length and every slot)
\* unchanged.
C2_AppendFailsIffFull ==
    [][\A row \in Rows :
          CallAppend(row) =>
              /\ (result'.err = "CannotGrowTable") <=> (length(table) = N)
              /\ result'.ok <=> (length(table) < N)
              /\ ~result'.ok => table' = table]_vars

\* the append after N successful ones has failed
C2_Witness ==
    /\ result.op = "append" /\ result.err = "CannotGrowTable"
    /\ Len(appended) = N /\ length(table) = N

\* get agrees with the history of successful appends: the (i+1)-th appended
\* row for i < length(), RowIndexOutOfBounds for i >= length()
get_matches_appended ==
    /\ Len(appended) = length(table)
    /\ \A i \in 0..(N + 1) :
          IF i < length(table)
          THEN get(table, i).ok /\ get(table, i).row = appended[i + 1]
          ELSE ~get(table, i).ok /\ get(table, i).err = "RowIndexOutOfBounds"
    /\ result.op = "get" =>
          IF result.arg < length(table)
          THEN result.ok /\ result.row = appended[result.arg + 1]
          ELSE ~result.ok /\ result.err = "RowIndexOutOfBounds"

\* C3: after any sequence of operations, for every index i < length(),
\* get(i) returns the (i+1)-th row successfully appended since construction
\* or the last erase, unaffected by later appends (a successful append
\* writes only slot length and raises length by exactly 1); for every index
\* i >= length(), i < N included, get(i) fails with RowIndexOutOfBounds.
C3_GetReturnsAppended ==
    [][/\ get_matches_appended
       /\ get_matches_appended'
       /\ \A row \in Rows :
             (CallAppend(row) /\ result'.ok) =>
                 /\ length(table') = length(table) + 1
                 /\ table'.data[length(table)] = row
                 /\ \A i \in 0..(N - 1) :
                       i # length(table) => table'.data[i] = table.data[i]]_vars

\* get(0) has returned the first row after a later append of another row
C3_Witness ==
    /\ result.op = "get" /\ result.arg = 0 /\ result.ok
    /\ length(table) = N
    /\ result.row = appended[1] /\ appended[N] # appended[1]

\* C4: erase is idempotent: erase(); erase() yields the same table as one
\* erase(), namely length == 0 and all N slots equal to the default row, and
\* after it get(0) fails with RowIndexOutOfBounds whatever the table held.
C4_EraseIdempotent ==
    /\ erase(erase(table)) = erase(table)
    /\ length(erase(table)) = 0
    /\ \A i \in 0..(N - 1) : erase(table).data[i] = DefaultRow
    /\ get(erase(table), 0).err = "RowIndexOutOfBounds"
    /\ result.op = "erase" =>
          /\ table = erase(table)
          /\ length(table) = 0
          /\ \A i \in 0..(N - 1) : table.data[i] = DefaultRow
          /\ get(table, 0).err = "RowIndexOutOfBounds"

\* erase has run on a full table
C4_Witness ==
    result.op = "erase" /\ result.len = N /\ length(table) = 0

\* C5: headers() always returns the sequence passed to new(), and get,
\* length, headers and plot leave headers, length and all slots unchanged.
C5_HeadersImmutable ==
    [][/\ headers(table) = new_headers
       /\ headers(table') = new_headers
       /\ result'.op = "headers" => result'.ret = new_headers
       /\ result'.op \in {"get", "length", "headers", "plot"} =>
             table' = table]_vars

\* headers() has been called after appends
C5_Witness ==
    result.op = "headers" /\ result.ret = new_headers /\ length(table) = N

\* C6 as stated: plot on a table with length() == 0 leaves min and max at
\* their sentinel values i32::MAX and i32::MIN.
C6_SentinelsRemain ==
    (result.op = "plot" /\ length(table) = 0) =>
        (result.min = I32_MAX /\ result.max = I32_MIN)

\* C6 amended: plot on a table with length() == 0 scans the N default-valued
\* slots, so min and max both equal the projection of the default row.
C6_MinMaxOfDefault ==
    (result.op = "plot" /\ length(table) = 0) =>
        (result.min = value[DefaultRow] /\ result.max = value[DefaultRow])

\* plot has run on an empty table
C6_Witness ==
    /\ result.op = "plot" /\ length(table) = 0
    /\ result.min = value[DefaultRow] /\ result.min # I32_MAX

\* C7: no operation has a panic path: all i32 arithmetic of plot stays
\* within the i32 range, and every array access is within 0..N-1.
C7_NoPanicPath ==
    /\ result.op = "plot" => ~result.overflow
    /\ result.op # "new" => result.idx \subseteq 0..(N - 1)

\* the left label of the line for the maximum and for the minimum
max_label(min, max) ==
    [pad |-> (IF count_digits(min) > count_digits(max)
              THEN count_digits(min) ELSE count_digits(max))
             - count_digits(max),
     num |-> <<max>>]

min_label(min, max) ==
    [pad |-> (IF count_digits(min) > count_digits(max)
              THEN count_digits(min) ELSE count_digits(max))
             - count_digits(min),
     num |-> <<min>>]

\* C8: with max > min, the first line of the plot carries the left label
\* max and the last line the left label min, also when the height of the
\* value 0 coincides with that level.
C8_MaxMinLabels ==
    (result.op = "plot" /\ ~result.overflow /\ result.max > result.min) =>
        /\ result.out # <<>>
        /\ result.out[1].label = max_label(result.min, result.max)
        /\ result.out[Len(result.out)].label
               = min_label(result.min, result.max)

\* the scaled height in exact arithmetic:
\* floor((v - min) * displayHeight / (max - min))
exact_height(v, min, max) ==
    ((v - min) * (IF max - min > 23 THEN 23 ELSE max - min)) \div (max - min)

\* C9: with max > min, plot emits displayHeight + 1 lines with
\* displayHeight = min(max - min, 23), every line holds length() glyphs, and
\* each row's column holds '*' at the level of its exact scaled height, '.'
\* on every level below and ' ' on every level above.
C9_GlyphsAtExactHeight ==
    (result.op = "plot" /\ ~result.overflow /\ result.max > result.min) =>
        /\ Len(result.out)
               = (IF result.max - result.min > 23
                  THEN 23 ELSE result.max - result.min) + 1
        /\ \A j \in 1..Len(result.out) :
              /\ Len(result.out[j].glyphs) = length(table)
              /\ \A c \in 1..length(table) :
                    result.out[j].glyphs[c]
                        = glyph(exact_height(value[table.data[c - 1]],
                                             result.min, result.max),
                                Len(result.out) - j)

\* C10: every slot at an index i with length <= i < N holds the default
\* row, so plot's range scan sees min <= value(default) <= max whenever
\* length < N.
C10_UnusedSlotsDefault ==
    /\ \A i \in length(table)..(N - 1) : table.data[i] = DefaultRow
    /\ (result.op = "plot" /\ length(table) < N) =>
          (result.min <= value[DefaultRow] /\ value[DefaultRow] <= result.max)

\* plot has run on a table with a used and an unused slot
C10_Witness ==
    /\ result.op = "plot" /\ length(table) > 0 /\ length(table) < N
    /\ Len(appended) = length(table)
    /\ result.min < result.max

====
